---- MODULE Spec2Model ----
(***************************************************************************)
(* The conflict-safe mutation client (package common, richClient): every   *)
(* public operation is a closure run under retry.RetryOnConflict against a *)
(* remote, versioned object store.  One object reference is modelled; the  *)
(* store calls of a client are the interleaving points.                    *)
(***************************************************************************)
EXTENDS Integers, FiniteSets, Sequences, TLC

\* ------------------------------------------------------------------ bounds
\* caller-supplied Backoff.Steps values are 1..MaxSteps (besides the default)
MaxSteps == 2
\* number of writes the other writers of the store (the environment) perform
MaxEnvWrites == 5
\* defaultBackoff.Steps
DefaultSteps == 5
\* Backoff.Steps values of the calls whose delays are followed in SpecBackoff
MaxTimedSteps == 4
\* number of admission requests the webhook server handles
MaxRequests == 2
\* rand.Float64() returns one of 0/JitterGrid .. (JitterGrid-1)/JitterGrid
JitterGrid == 3

\* time.Second, in the unit of the durations: ticks of 1/64 s, so that the
\* products with the factors below are whole numbers
Second == 64
\* Backoff.Factor and Backoff.Jitter are held in tenths
Tenths == 10
\* defaultBackoff.Duration, .Factor (1.5) and .Jitter (0.5)
DefaultDuration == 1 * Second
DefaultFactor == 15
DefaultJitter == 5

\* the goroutines that call the client: one in Spec, two in SpecRace
Clients == {1, 2}
Callers == {1}

None == "unchanged"                  \* controllerutil.OperationResultNone
Created == "created"                 \* controllerutil.OperationResultCreated
Updated == "updated"                 \* controllerutil.OperationResultUpdated
UpdatedStatus == "updatedStatus"     \* controllerutil.OperationResultUpdatedStatus
UpdatedStatusOnly == "updatedStatusOnly"

Ops == {"GetAndUpdate", "GetAndPatch", "CreateOrUpdate", "CreateOrPatch",
        "CreateOrPatchWithJsonMerge", "CreateIfNotExist", "UpdateStatus"}
\* the operations that take a mutation function
MutatingOps == Ops \ {"CreateIfNotExist", "UpdateStatus"}
\* what the caller's func() error does to the object it is handed:
\*  noop   nothing;        list  turns a nil list field into an empty one
\*  body   sets a non-status field;   status  sets a status field;  both
\*  rename changes metadata.name;     fail    returns an error
MutateFns == {"noop", "list", "body", "status", "both", "rename", "fail"}

\* constructed records the Backoff the client had when NewClient returned
VARIABLES store, Backoff, cl, envWrites, constructed
\* the admission listener: lw is the ListenerWebhook the server was given,
\* handle the invocations of its Handle, repo the git repository they share
VARIABLES lw, handle, repo
clientVars == <<store, Backoff, cl, envWrites, constructed>>
listenerVars == <<lw, handle, repo>>
vars == <<store, Backoff, cl, envWrites, constructed, lw, handle, repo>>

\* ------------------------------------------------------------ the objects
\* A client.Object: identity, resourceVersion (the concurrency token, 0 when
\* unset), the non-status fields (a set of values written by the callers and a
\* list field that is nil or empty) and the status subtree.
NewObject == [name |-> "n", rv |-> 0, body |-> {}, list |-> "nil", status |-> {}]

\* client.ObjectKeyFromObject
ObjectKeyFromObject(obj) == obj.name

\* a comparison that leaves the status out
SemanticDeepEqualSpecOnly(a, b) ==
    /\ a.name = b.name
    /\ a.rv = b.rv
    /\ a.body = b.body

\* equality.Semantic.DeepEqual on the typed objects: a nil and an empty list
\* are the same, every other field is compared
SemanticDeepEqual(a, b) ==
    /\ a.name = b.name
    /\ a.rv = b.rv
    /\ a.body = b.body
    /\ a.status = b.status

\* runtime.DefaultUnstructuredConverter.ToUnstructured: the generic tree; a nil
\* list converts to null and an empty one to [], so the tree keeps them apart
ToUnstructured(obj) ==
    [name |-> obj.name, rv |-> obj.rv, body |-> obj.body,
     list |-> IF obj.list = "nil" THEN "null" ELSE "[]", status |-> obj.status]

\* unstructured.NestedFieldCopy(u, "status")
NestedStatus(u) == u.status
\* the tree with its status left in
KeepStatus(u) == u
\* unstructured.RemoveNestedField(u, "status")
RemoveStatus(u) == [name |-> u.name, rv |-> u.rv, body |-> u.body, list |-> u.list]

\* the caller's func() error, applied in place to the object of caller c
ApplyFn(f, c, obj) ==
    CASE f = "list" -> [obj EXCEPT !.list = "empty"]
      [] f = "body" -> [obj EXCEPT !.body = @ \cup {c}]
      [] f = "status" -> [obj EXCEPT !.status = @ \cup {c}]
      [] f = "both" -> [obj EXCEPT !.body = @ \cup {c}, !.status = @ \cup {c}]
      [] f = "rename" -> [obj EXCEPT !.name = "renamed"]
      [] OTHER -> obj

\* mutate without the identity check
mutateUnchecked(f, c, key, obj) ==
    [obj |-> ApplyFn(f, c, obj), err |-> IF f = "fail" THEN "FnError" ELSE "nil"]

\* mutate wraps a func() error and applies validation to its result
mutate(f, c, key, obj) ==
    LET o == ApplyFn(f, c, obj)
    IN IF f = "fail" THEN [obj |-> o, err |-> "FnError"]
       ELSE IF key # ObjectKeyFromObject(o) THEN [obj |-> o, err |-> "IdentityViolation"]
       ELSE [obj |-> o, err |-> "nil"]

\* --------------------------------------------------------------- the store
\* The external ObjectStore holds one reference: whether it exists, the last
\* token it handed out, and the document.
StoreDoc(s) == [name |-> "n", rv |-> s.rv, body |-> s.body, list |-> s.list,
                status |-> s.status]

\* Each store call answers with one of the responses the store can give in its
\* current state; inj is the set of unclassified failures the transport may add.
GetResponses(s, inj) == (IF s.exists THEN {"ok"} ELSE {"NotFound"}) \cup inj

\* Create: an object that carries a token is refused as invalid
CreateResponses(s, obj, inj) ==
    (IF obj.rv # 0 THEN {"Other"}
     ELSE IF s.exists THEN {"AlreadyExists"} ELSE {"ok"}) \cup inj

\* Update / Status().Update / Patch(client.Merge): compare-and-swap on the token
CasResponses(s, obj, inj) ==
    (IF ~s.exists THEN {"NotFound"}
     ELSE IF obj.rv # s.rv THEN {"Conflict"} ELSE {"ok"}) \cup inj

\* Patch(client.MergeFrom(orig)): the patch document is the difference between
\* orig and obj.  It holds the token only when the two tokens differ, and then
\* the store checks it; otherwise the store may still report a conflict when
\* it was written since the snapshot was taken.
PatchResponses(s, obj, orig, inj) ==
    (IF ~s.exists THEN {"NotFound"}
     ELSE IF obj.rv = s.rv THEN {"ok"}
     ELSE IF obj.rv # orig.rv THEN {"Conflict"}
     ELSE {"ok", "Conflict"}) \cup inj

Written(s, body, list, status) ==
    [exists |-> TRUE, rv |-> s.rv + 1, body |-> body, list |-> list, status |-> status]

\* the store after a successful call
AfterCreate(s, obj) == Written(s, obj.body, obj.list, obj.status)
AfterUpdate(s, obj) == Written(s, obj.body, obj.list, obj.status)
AfterStatusUpdate(s, obj) == Written(s, s.body, s.list, obj.status)
AfterMergePatch(s, obj) == Written(s, obj.body, obj.list, s.status)
AfterPatch(s, obj, orig) ==
    Written(s, s.body \cup (obj.body \ orig.body),
            IF obj.list # orig.list THEN obj.list ELSE s.list, s.status)
AfterStatusPatch(s, obj, orig) ==
    Written(s, s.body, s.list, s.status \cup (obj.status \ orig.status))

\* ------------------------------------------------------------- the callers
\* The state of one call: pc is the store call the attempt issues next
\* ("Retry": the closure has returned to RetryOnConflict), obj the caller's
\* object, orig the copy taken after the fetch, result/err what the closure
\* returned last, steps the Steps left in the call's copy of the Backoff,
\* ret the error returned to the caller.  The rest records the history of the
\* call: absent (the object did not exist when the call was made), attempts,
\* fnCalls (invocations of the mutation function), and for the current attempt
\* applied (the mutation function was invoked, on orig, and left after) and
\* log (the store calls with the token each carried and the token each
\* answer returned); stale are the tokens a write of the call was refused
\* for, reused whether a later write carried one.  Over the whole call: ftok
\* the token of the last snapshot fetched and wtok the token the last
\* successful write returned (0: none), latest which of the two came last,
\* wrote the sub-documents its Patch calls have written, and cancelAt the
\* attempt during which the caller's context was cancelled (0: it was not);
\* inflight: the store call that was under way then has not answered yet.
\* duration, factor and jitter are the rest of the call's copy of the Backoff,
\* delays the delays RetryOnConflict has slept between the attempts.
IdleClient ==
    [pc |-> "idle", op |-> "none", f |-> "noop", obj |-> NewObject, orig |-> NewObject,
     after |-> NewObject, result |-> None, err |-> "nil", steps |-> 0,
     lastErr |-> "nil", ret |-> "nil", absent |-> FALSE, attempts |-> 0,
     fnCalls |-> 0, applied |-> FALSE, log |-> <<>>, stale |-> {}, reused |-> FALSE,
     ftok |-> 0, wtok |-> 0, latest |-> "none", wrote |-> {}, cancelAt |-> 0,
     inflight |-> FALSE, duration |-> 0, factor |-> 0, jitter |-> 0, delays |-> <<>>]

\* the writes the store guards by the token
GuardedWrites == {"Update", "StatusUpdate", "Patch", "StatusPatch", "MergePatch"}
Writes == GuardedWrites \cup {"Create"}

\* a fetch was answered r
Fetched(s, r, doc) ==
    [s EXCEPT !.obj = IF r = "ok" THEN doc ELSE @,
              !.log = Append(@, [call |-> "Get", resp |-> r, tok |-> 0,
                                 rtok |-> IF r = "ok" THEN doc.rv ELSE 0]),
              !.ftok = IF r = "ok" THEN doc.rv ELSE @,
              !.latest = IF r = "ok" THEN "fetch" ELSE @,
              !.inflight = FALSE]

\* write call was issued with s.obj and answered r; doc is the stored document
\* the answer carries when r is ok
Issued(s, call, r, doc) ==
    [s EXCEPT !.log = Append(@, [call |-> call, resp |-> r, tok |-> s.obj.rv,
                                 rtok |-> IF r = "ok" THEN doc.rv ELSE 0]),
              !.reused = @ \/ (call \in GuardedWrites /\ s.obj.rv \in s.stale),
              !.stale = IF r = "Conflict" THEN @ \cup {s.obj.rv} ELSE @,
              !.obj = IF r = "ok" THEN doc ELSE @,
              !.wtok = IF r = "ok" THEN doc.rv ELSE @,
              !.latest = IF r = "ok" THEN "write" ELSE @,
              !.wrote = IF r # "ok" THEN @
                        ELSE IF call = "Patch" THEN @ \cup {"body"}
                        ELSE IF call = "StatusPatch" THEN @ \cup {"status"}
                        ELSE @,
              !.inflight = FALSE]

\* the mutation function ran on s.obj and left m.obj
Applied(s, m) ==
    [s EXCEPT !.orig = s.obj, !.obj = m.obj, !.after = m.obj, !.applied = TRUE,
              !.fnCalls = @ + 1]

\* the closure returns (result, err) to RetryOnConflict
Return(s, res, e) == [s EXCEPT !.pc = "Retry", !.result = res, !.err = e]

\* getAndUpdate without the equality check: every fetched object is written
getAndUpdateAlwaysWrites(s, c, r) ==
    IF r # "ok" THEN Return(s, None, r)
    ELSE LET key == ObjectKeyFromObject(s.obj)
             m == mutate(s.f, c, key, s.obj)
             t == Applied(s, m)
         IN IF m.err # "nil" THEN Return(t, None, m.err)
            ELSE [t EXCEPT !.pc = "Update"]

\* getAndUpdate that creates the object when the fetch finds none
getAndUpdateOrCreate(s, c, r) ==
    IF r = "NotFound"
    THEN LET m == mutate(s.f, c, ObjectKeyFromObject(s.obj), s.obj)
         IN [Applied(s, m) EXCEPT !.pc = "Create"]
    ELSE IF r # "ok" THEN Return(s, None, r)
    ELSE LET m == mutate(s.f, c, ObjectKeyFromObject(s.obj), s.obj)
             t == Applied(s, m)
         IN IF m.err # "nil" THEN Return(t, None, m.err)
            ELSE IF SemanticDeepEqual(s.obj, m.obj) THEN Return(t, None, "nil")
            ELSE [t EXCEPT !.pc = "Update"]

\* getAndUpdate, from the answer r of c.Get to the Update or the return
getAndUpdate(s, c, r) ==
    IF r # "ok" THEN Return(s, None, r)
    ELSE LET key == ObjectKeyFromObject(s.obj)
             existing == s.obj
             m == mutate(s.f, c, key, s.obj)
             t == Applied(s, m)
         IN IF m.err # "nil" THEN Return(t, None, m.err)
            ELSE IF SemanticDeepEqual(existing, m.obj) THEN Return(t, None, "nil")
            ELSE [t EXCEPT !.pc = "Update"]

\* getAndUpdate that drops the error of c.Update
getAndUpdateWrittenUnchecked(s, r) == Return(s, Updated, "nil")

\* getAndUpdate and controllerutil.CreateOrUpdate, from the answer of c.Update
getAndUpdateWritten(s, r) ==
    IF r # "ok" THEN Return(s, None, r) ELSE Return(s, Updated, "nil")

\* a create branch that creates the caller's object as it was handed over
createBranchUnmutated(s, c, r) ==
    IF r # "NotFound" THEN Return(s, None, r) ELSE [s EXCEPT !.pc = "Create"]

\* the create branch shared by the create-or-* operations: the fetch failed
createBranch(s, c, r) ==
    IF r # "NotFound" THEN Return(s, None, r)
    ELSE LET key == ObjectKeyFromObject(s.obj)
             m == mutate(s.f, c, key, s.obj)
             t == Applied(s, m)
         IN IF m.err # "nil" THEN Return(t, None, m.err)
            ELSE [t EXCEPT !.pc = "Create"]

\* a create branch that takes AlreadyExists for success
createWrittenTolerant(s, r) ==
    IF r = "AlreadyExists" THEN Return(s, None, "nil")
    ELSE IF r # "ok" THEN Return(s, None, r)
    ELSE Return(s, Created, "nil")

\* the create-or-* operations, from the answer of c.Create
createWritten(s, r) ==
    IF r # "ok" THEN Return(s, None, r) ELSE Return(s, Created, "nil")

\* controllerutil.CreateOrUpdate, from the answer r of c.Get
createOrUpdate(s, c, r) ==
    IF r # "ok" THEN createBranch(s, c, r) ELSE getAndUpdate(s, c, r)

\* createOrPatchWithJsonMerge, from the answer r of c.Get
createOrPatchWithJsonMerge(s, c, r) ==
    IF r # "ok" THEN createBranch(s, c, r)
    ELSE LET key == ObjectKeyFromObject(s.obj)
             existing == s.obj
             m == mutate(s.f, c, key, s.obj)
             t == Applied(s, m)
         IN IF m.err # "nil" THEN Return(t, None, m.err)
            ELSE IF SemanticDeepEqual(existing, m.obj) THEN Return(t, None, "nil")
            ELSE [t EXCEPT !.pc = "MergePatch"]

\* createOrPatchWithJsonMerge that creates the object when the Patch finds none
createOrPatchWithJsonMergeWrittenOrCreate(s, r) ==
    IF r = "NotFound" THEN [s EXCEPT !.pc = "Create"]
    ELSE IF r # "ok" THEN Return(s, None, r)
    ELSE Return(s, Updated, "nil")

\* createOrPatchWithJsonMerge, from the answer of c.Patch(obj, client.Merge)
createOrPatchWithJsonMergeWritten(s, r) ==
    IF r # "ok" THEN Return(s, None, r) ELSE Return(s, Updated, "nil")

\* the status comparison of getAndPatch: beforeStatus against afterStatus
\* the status comparison made on the object the last store call returned
statusDiffersReturned(s) ==
    LET returnedStatus == NestedStatus(ToUnstructured(s.obj))
        afterStatus == NestedStatus(ToUnstructured(s.after))
    IN returnedStatus # afterStatus

\* the comparison of the status subtrees taken before and after the mutation
statusDiffers(s) ==
    LET beforeStatus == NestedStatus(ToUnstructured(s.orig))
        afterStatus == NestedStatus(ToUnstructured(s.after))
    IN beforeStatus # afterStatus

\* getAndPatch that puts the whole mutated object back before the status Patch
getAndPatchStatusRestoreAll(s) ==
    IF statusDiffers(s)
    THEN [s EXCEPT !.obj = IF s.result = Updated THEN s.after ELSE @,
                   !.pc = "StatusPatch"]
    ELSE Return(s, s.result, "nil")

\* getAndPatch after the body comparison: the status Patch or the return
getAndPatchStatus(s) ==
    IF statusDiffers(s)
    THEN [s EXCEPT !.obj.status = IF s.result = Updated THEN s.after.status ELSE @,
                   !.pc = "StatusPatch"]
    ELSE Return(s, s.result, "nil")

\* getAndPatch, from the answer r of c.Get to the first Patch or the return
getAndPatch(s, c, r) ==
    IF r # "ok" THEN Return(s, None, r)
    ELSE LET key == ObjectKeyFromObject(s.obj)
             orig == s.obj
             before == RemoveStatus(ToUnstructured(orig))
             m == mutate(s.f, c, key, s.obj)
             after == RemoveStatus(ToUnstructured(m.obj))
             t == [Applied(s, m) EXCEPT !.result = None]
         IN IF m.err # "nil" THEN Return(t, None, m.err)
            ELSE IF before # after THEN [t EXCEPT !.pc = "Patch"]
            ELSE getAndPatchStatus(t)

\* getAndPatch that does not record the body Patch in its result
getAndPatchPatchedUnrecorded(s, r) ==
    IF r # "ok" THEN Return(s, s.result, r) ELSE getAndPatchStatus(s)

\* getAndPatch that goes on to the status comparison whatever c.Patch answered
getAndPatchPatchedUnchecked(s, r) ==
    getAndPatchStatus([s EXCEPT !.result = IF r = "ok" THEN Updated ELSE @])

\* getAndPatch, from the answer of c.Patch(obj, objPatch)
getAndPatchPatched(s, r) ==
    IF r # "ok" THEN Return(s, s.result, r)
    ELSE getAndPatchStatus([s EXCEPT !.result = Updated])

\* getAndPatch that returns NoChange with every error of the status Patch
getAndPatchStatusPatchedReset(s, r) ==
    IF r # "ok" THEN Return(s, None, r)
    ELSE Return(s, IF s.result = Updated THEN UpdatedStatus ELSE UpdatedStatusOnly, "nil")

\* getAndPatch, from the answer of c.Status().Patch(obj, statusPatch)
getAndPatchStatusPatched(s, r) ==
    IF r # "ok" THEN Return(s, s.result, r)
    ELSE Return(s, IF s.result = Updated THEN UpdatedStatus ELSE UpdatedStatusOnly, "nil")

\* controllerutil.CreateOrPatch, from the answer r of c.Get
createOrPatch(s, c, r) ==
    IF r # "ok" THEN createBranch(s, c, r) ELSE getAndPatch(s, c, r)

\* the closure of CreateIfNotExist, from the answer r of c.Get
CreateIfNotExist(s, r) ==
    IF r # "ok" THEN [s EXCEPT !.pc = "Create"] ELSE Return(s, None, "nil")

\* CreateIfNotExist that returns every error of c.Create
CreateIfNotExistCreatedStrict(s, r) ==
    IF r # "ok" THEN Return(s, None, r) ELSE Return(s, None, "nil")

\* the closure of CreateIfNotExist, from the answer of c.Create
CreateIfNotExistCreated(s, r) ==
    IF r # "ok" /\ r # "AlreadyExists" THEN Return(s, None, r) ELSE Return(s, None, "nil")

\* the closure of UpdateStatus, from the answer of c.Status().Update
UpdateStatus(s, r) == Return(s, None, r)

\* the store call an attempt of op starts with
FirstCall(op) == IF op = "UpdateStatus" THEN "StatusUpdate" ELSE "Get"

\* a retry on every error
RetryOnError(s) ==
    IF s.err = "nil" THEN [s EXCEPT !.pc = "done", !.ret = "nil"]
    ELSE IF s.steps = 1
         THEN [s EXCEPT !.pc = "done", !.lastErr = s.err, !.ret = s.err]
    ELSE [s EXCEPT !.pc = FirstCall(s.op), !.lastErr = s.err, !.steps = @ - 1,
                   !.attempts = @ + 1, !.applied = FALSE, !.log = <<>>]

\* RetryOnConflict that reports the exhaustion instead of the last conflict
RetryOnConflictTimeout(s) ==
    IF s.err = "nil" THEN [s EXCEPT !.pc = "done", !.ret = "nil"]
    ELSE IF s.err # "Conflict" THEN [s EXCEPT !.pc = "done", !.ret = s.err]
    ELSE IF s.steps = 1
         THEN [s EXCEPT !.pc = "done", !.lastErr = s.err, !.ret = "ErrWaitTimeout"]
    ELSE [s EXCEPT !.pc = FirstCall(s.op), !.lastErr = s.err, !.steps = @ - 1,
                   !.attempts = @ + 1, !.applied = FALSE, !.log = <<>>]

\* retry.RetryOnConflict around the closure, which returned (s.result, s.err):
\* wait.ExponentialBackoff runs it again while it reports a conflict and Steps
\* are left, and OnError hands back the last conflict when they run out
RetryOnConflict(s) ==
    IF s.err = "nil" THEN [s EXCEPT !.pc = "done", !.ret = "nil"]
    ELSE IF s.err # "Conflict" THEN [s EXCEPT !.pc = "done", !.ret = s.err]
    ELSE IF s.steps = 1
         THEN [s EXCEPT !.pc = "done", !.lastErr = s.err, !.ret = s.err]
    ELSE [s EXCEPT !.pc = FirstCall(s.op), !.lastErr = s.err, !.steps = @ - 1,
                   !.attempts = @ + 1, !.applied = FALSE, !.log = <<>>]

\* ------------------------------------------------- the admission listener
\* the admission requests the webhook server hands to Handle, each on a
\* goroutine of its own
Requests == 1..MaxRequests
\* the parts of the object whose old and new values Handle compares
DiffFields == {"spec", "status", "labels", "annotations"}
\* the sets of non-empty diffs followed: none, each part alone, all four
DiffChoices == {{}, DiffFields} \cup {{d} : d \in DiffFields}
\* An admission.Request as far as Handle tells requests apart.  raw: "json"
\* when both raw objects parse and hold what Handle reads, "invalid" when
\* json.Unmarshal or jd.NewJsonNode fails, "untyped" when metadata or
\* managedFields is not of the asserted type; diffs: the parts whose rendered
\* diff is not empty; namespaced: metadata.namespace is a string; yaml:
\* yaml.Marshal of the object succeeds.
AdmissionRequests ==
    [raw : {"json", "invalid", "untyped"}, diffs : DiffChoices,
     namespaced : BOOLEAN, yaml : BOOLEAN]

\* One invocation of Handle: pc is where it stands ("CommitChange" and
\* "PushToRemote": inside syncGit, before that call; "panicked": a type
\* assertion failed and no response is returned), diffs the non-empty diffs
\* it found, data the yaml it hands to syncGit, commit and push what
\* git.CommitChange and git.PushToRemote returned to it, response the
\* admission.Response it returned.
IdleHandle ==
    [pc |-> "idle", diffs |-> {}, data |-> "none", commit |-> "none",
     push |-> "none", response |-> "none"]

\* the local clone: the requests whose commits it holds, and those of them
\* the remote has received
ClonedRepo == [local |-> {}, remote |-> {}]

\* Handle returns admission.Errored(400, err) or admission.Allowed("allowed")
Returned(h, response) ==
    [h EXCEPT !.pc = "done", !.response = response, !.data = "none"]

\* a failed type assertion panics: Handle returns nothing
Panicked(h) == [h EXCEPT !.pc = "panicked"]

\* ListenerWebhook.Handle from the request to its return or to syncGit
Handle(l, h, r) ==
    IF r.raw = "invalid" THEN Returned(h, "Errored")
    ELSE IF r.raw = "untyped" THEN Panicked(h)
    ELSE LET d == [h EXCEPT !.diffs = r.diffs]
         IN  IF r.diffs = {} \/ ~l.EnableGitReview THEN Returned(d, "Allowed")
             ELSE IF ~r.namespaced THEN Panicked(d)
             ELSE [d EXCEPT !.pc = "CommitChange",
                            !.data = IF r.yaml THEN "yaml" ELSE "nil"]

\* syncGit that goes on to push whatever git.CommitChange returned
syncGitCommittedUnchecked(h, err) ==
    [h EXCEPT !.commit = IF err = "nil" THEN "ok" ELSE "err",
              !.pc = "PushToRemote", !.data = "none"]

\* syncGit after git.CommitChange returned err: an error is returned to
\* Handle, which logs it and returns Allowed; otherwise the push follows
syncGitCommitted(h, err) ==
    IF err # "nil"
    THEN Returned([h EXCEPT !.commit = "err"], "Allowed")
    ELSE [h EXCEPT !.commit = "ok", !.pc = "PushToRemote", !.data = "none"]

\* syncGit after git.PushToRemote returned err, and the return of Handle
syncGitPushed(h, err) ==
    Returned([h EXCEPT !.push = IF err = "nil" THEN "ok" ELSE "err"], "Allowed")

\* git.CommitChange answers nil, an error of a step before wtree.Commit
\* ("err"), or the error of r.CommitObject after the commit was made ("lost")
CommitAnswers == {"nil", "err", "lost"}
\* the repository after git.CommitChange of request q answered ans
Committed(g, q, ans) == IF ans = "err" THEN g ELSE [g EXCEPT !.local = @ \cup {q}]
\* git.PushToRemote answers nil or an error; with nothing to send r.Push
\* answers the error NoErrAlreadyUpToDate
PushAnswers(g) == IF g.local = g.remote THEN {"err"} ELSE {"nil", "err"}
\* the repository after git.PushToRemote answered ans
Pushed(g, ans) == IF ans = "nil" THEN [g EXCEPT !.remote = g.local] ELSE g

\* the webhook server calls Handle with a request
Admit(q) ==
    /\ handle[q].pc = "idle"
    /\ \E r \in AdmissionRequests :
          handle' = [handle EXCEPT ![q] = Handle(lw, handle[q], r)]
    /\ UNCHANGED <<lw, repo, clientVars>>

\* syncGit calls git.CommitChange
CommitChange(q) ==
    /\ handle[q].pc = "CommitChange"
    /\ \E ans \in CommitAnswers :
          /\ repo' = Committed(repo, q, ans)
          /\ handle' = [handle EXCEPT ![q] =
                 syncGitCommitted(handle[q], IF ans = "nil" THEN "nil" ELSE "err")]
    /\ UNCHANGED <<lw, clientVars>>

\* syncGit calls git.PushToRemote
PushToRemote(q) ==
    /\ handle[q].pc = "PushToRemote"
    /\ \E ans \in PushAnswers(repo) :
          /\ repo' = Pushed(repo, ans)
          /\ handle' = [handle EXCEPT ![q] = syncGitPushed(handle[q], ans)]
    /\ UNCHANGED <<lw, clientVars>>

\* the listener of a program that serves no admission request
NoListener ==
    /\ lw = [EnableGitReview |-> FALSE]
    /\ handle = [q \in Requests |-> IdleHandle]
    /\ repo = ClonedRepo

\* ------------------------------------------------------------- the actions
\* NewClient: the Backoff is the default or the one the options set
BackoffChoices ==
    [Steps : (1..MaxSteps) \cup {DefaultSteps}, Duration : {DefaultDuration},
     Factor : {DefaultFactor}, Jitter : {DefaultJitter}]

\* the documents the store may hold when the client is constructed
InitStores ==
    {[exists |-> FALSE, rv |-> 0, body |-> {}, list |-> "nil", status |-> {}]}
    \cup [exists : {TRUE}, rv : {1}, body : SUBSET Callers, list : {"nil", "empty"},
          status : SUBSET Callers]

Init ==
    /\ store \in InitStores
    /\ Backoff \in BackoffChoices
    /\ cl = [c \in Clients |-> IdleClient]
    /\ envWrites = 0
    /\ constructed = Backoff
    /\ NoListener

\* the object a caller hands to the operation: its identity alone, or for
\* UpdateStatus the snapshot the caller has read and whose status it changed
CallerObject(op, c) ==
    IF op = "UpdateStatus"
    THEN [StoreDoc(store) EXCEPT !.status = @ \cup {c}]
    ELSE NewObject

\* a call that retries with the default Backoff whatever the options say
CallDefaultBackoff(c, ops) ==
    /\ cl[c].pc = "idle"
    /\ \E op \in ops, f \in MutateFns :
         /\ op \notin MutatingOps => f = "noop"
         /\ op = "UpdateStatus" => store.exists
         /\ cl' = [cl EXCEPT ![c] =
                     [IdleClient EXCEPT !.pc = FirstCall(op), !.op = op, !.f = f,
                                        !.obj = CallerObject(op, c),
                                        !.steps = DefaultSteps, !.attempts = 1,
                                        !.duration = DefaultDuration,
                                        !.factor = DefaultFactor,
                                        !.jitter = DefaultJitter,
                                        !.absent = ~store.exists]]
    /\ UNCHANGED <<store, Backoff, constructed, envWrites, listenerVars>>

\* a caller invokes one of the public operations of richClient; the Backoff
\* is passed to RetryOnConflict by value
Call(c, ops) ==
    /\ cl[c].pc = "idle"
    /\ \E op \in ops, f \in MutateFns :
         /\ op \notin MutatingOps => f = "noop"
         /\ op = "UpdateStatus" => store.exists
         /\ cl' = [cl EXCEPT ![c] =
                     [IdleClient EXCEPT !.pc = FirstCall(op), !.op = op, !.f = f,
                                        !.obj = CallerObject(op, c),
                                        !.steps = Backoff.Steps, !.attempts = 1,
                                        !.duration = Backoff.Duration,
                                        !.factor = Backoff.Factor,
                                        !.jitter = Backoff.Jitter,
                                        !.absent = ~store.exists]]
    /\ UNCHANGED <<store, Backoff, constructed, envWrites, listenerVars>>

\* The answers a store call made with the context of s can get, rs being those
\* of the store: once the context is cancelled the call that was under way
\* completes or is abandoned with the context's error, and every later call
\* fails with that error at once.
Answers(s, rs) ==
    IF s.cancelAt = 0 THEN rs
    ELSE IF s.inflight THEN rs \cup {"Canceled"}
    ELSE {"Canceled"}

\* c.Get(ctx, key, obj) and the code up to the next store call
Get(c, inj) ==
    /\ cl[c].pc = "Get"
    /\ \E r \in Answers(cl[c], GetResponses(store, inj)) :
         LET s == Fetched(cl[c], r, StoreDoc(store))
         IN cl' = [cl EXCEPT ![c] =
                CASE s.op = "GetAndUpdate" -> getAndUpdate(s, c, r)
                  [] s.op = "GetAndPatch" -> getAndPatch(s, c, r)
                  [] s.op = "CreateOrUpdate" -> createOrUpdate(s, c, r)
                  [] s.op = "CreateOrPatch" -> createOrPatch(s, c, r)
                  [] s.op = "CreateOrPatchWithJsonMerge" -> createOrPatchWithJsonMerge(s, c, r)
                  [] OTHER -> CreateIfNotExist(s, r)]
    /\ UNCHANGED <<store, Backoff, constructed, envWrites, listenerVars>>

\* c.Create(ctx, obj)
Create(c, inj) ==
    /\ cl[c].pc = "Create"
    /\ \E r \in Answers(cl[c], CreateResponses(store, cl[c].obj, inj)) :
         LET st == IF r = "ok" THEN AfterCreate(store, cl[c].obj) ELSE store
             s == Issued(cl[c], "Create", r, StoreDoc(st))
         IN /\ store' = st
            /\ cl' = [cl EXCEPT ![c] = IF s.op = "CreateIfNotExist"
                                        THEN CreateIfNotExistCreated(s, r)
                                        ELSE createWritten(s, r)]
    /\ UNCHANGED <<Backoff, constructed, envWrites, listenerVars>>

\* c.Update(ctx, obj)
Update(c, inj) ==
    /\ cl[c].pc = "Update"
    /\ \E r \in Answers(cl[c], CasResponses(store, cl[c].obj, inj)) :
         LET st == IF r = "ok" THEN AfterUpdate(store, cl[c].obj) ELSE store
             s == Issued(cl[c], "Update", r, StoreDoc(st))
         IN /\ store' = st
            /\ cl' = [cl EXCEPT ![c] = getAndUpdateWritten(s, r)]
    /\ UNCHANGED <<Backoff, constructed, envWrites, listenerVars>>

\* c.Patch(ctx, obj, client.Merge)
MergePatch(c, inj) ==
    /\ cl[c].pc = "MergePatch"
    /\ \E r \in Answers(cl[c], CasResponses(store, cl[c].obj, inj)) :
         LET st == IF r = "ok" THEN AfterMergePatch(store, cl[c].obj) ELSE store
             s == Issued(cl[c], "MergePatch", r, StoreDoc(st))
         IN /\ store' = st
            /\ cl' = [cl EXCEPT ![c] = createOrPatchWithJsonMergeWritten(s, r)]
    /\ UNCHANGED <<Backoff, constructed, envWrites, listenerVars>>

\* c.Patch(ctx, obj, objPatch)
Patch(c, inj) ==
    /\ cl[c].pc = "Patch"
    /\ \E r \in Answers(cl[c], PatchResponses(store, cl[c].obj, cl[c].orig, inj)) :
         LET st == IF r = "ok" THEN AfterPatch(store, cl[c].obj, cl[c].orig) ELSE store
             s == Issued(cl[c], "Patch", r, StoreDoc(st))
         IN /\ store' = st
            /\ cl' = [cl EXCEPT ![c] = getAndPatchPatched(s, r)]
    /\ UNCHANGED <<Backoff, constructed, envWrites, listenerVars>>

\* c.Status().Patch(ctx, obj, statusPatch)
StatusPatch(c, inj) ==
    /\ cl[c].pc = "StatusPatch"
    /\ \E r \in Answers(cl[c], PatchResponses(store, cl[c].obj, cl[c].orig, inj)) :
         LET st == IF r = "ok" THEN AfterStatusPatch(store, cl[c].obj, cl[c].orig)
                   ELSE store
             s == Issued(cl[c], "StatusPatch", r, StoreDoc(st))
         IN /\ store' = st
            /\ cl' = [cl EXCEPT ![c] = getAndPatchStatusPatched(s, r)]
    /\ UNCHANGED <<Backoff, constructed, envWrites, listenerVars>>

\* c.Status().Update(ctx, obj)
StatusUpdate(c, inj) ==
    /\ cl[c].pc = "StatusUpdate"
    /\ \E r \in Answers(cl[c], CasResponses(store, cl[c].obj, inj)) :
         LET st == IF r = "ok" THEN AfterStatusUpdate(store, cl[c].obj) ELSE store
             s == Issued(cl[c], "StatusUpdate", r, StoreDoc(st))
         IN /\ store' = st
            /\ cl' = [cl EXCEPT ![c] = UpdateStatus(s, r)]
    /\ UNCHANGED <<Backoff, constructed, envWrites, listenerVars>>

\* wait.Jitter: duration + rand.Float64() * maxFactor * duration, truncated
Jitter(duration, maxFactor, rand) ==
    duration + (rand * maxFactor * duration) \div (JitterGrid * Tenths)

\* a Step that sleeps the Duration it has just multiplied by the Factor
StepAfterGrowth(s, rand) ==
    LET next == IF s.factor # 0 THEN (s.duration * s.factor) \div Tenths
                ELSE s.duration
    IN [delay |-> IF s.jitter > 0 THEN Jitter(next, s.jitter, rand) ELSE next,
        Duration |-> next]

\* Backoff.Step on the call's copy: the delay to sleep now and the Duration
\* kept for the next step (Steps is counted down in RetryOnConflict above)
Step(s, rand) ==
    [delay |-> IF s.jitter > 0 THEN Jitter(s.duration, s.jitter, rand)
               ELSE s.duration,
     Duration |-> IF s.factor # 0 THEN (s.duration * s.factor) \div Tenths
                  ELSE s.duration]

\* time.Sleep(backoff.Step()) before the attempt that t starts after s
Sleep(s, t, rand) ==
    IF t.pc = "done" THEN t
    ELSE [t EXCEPT !.duration = Step(s, rand).Duration,
                   !.delays = Append(@, Step(s, rand).delay)]

\* the closure has returned: RetryOnConflict returns or sleeps and runs it
\* again; rands are the values rand.Float64() may return
Retry(c, rands) ==
    /\ cl[c].pc = "Retry"
    /\ \E rand \in rands :
         cl' = [cl EXCEPT ![c] = Sleep(cl[c], RetryOnConflict(cl[c]), rand)]
    /\ UNCHANGED <<store, Backoff, constructed, envWrites, listenerVars>>

\* another writer of the store changes a field the callers do not touch
EnvWrite ==
    /\ envWrites < MaxEnvWrites
    /\ store.exists
    /\ store' = [store EXCEPT !.rv = @ + 1]
    /\ envWrites' = envWrites + 1
    /\ UNCHANGED <<Backoff, constructed, cl, listenerVars>>

\* another writer sets the status field that the callers set
EnvStatus ==
    /\ envWrites < MaxEnvWrites
    /\ store.exists
    /\ ~(Callers \subseteq store.status)
    /\ store' = [store EXCEPT !.rv = @ + 1, !.status = @ \cup Callers]
    /\ envWrites' = envWrites + 1
    /\ UNCHANGED <<Backoff, constructed, cl, listenerVars>>

\* another writer deletes the object
EnvDelete ==
    /\ envWrites < MaxEnvWrites
    /\ store.exists
    /\ store' = [exists |-> FALSE, rv |-> store.rv, body |-> {}, list |-> "nil",
                 status |-> {}]
    /\ envWrites' = envWrites + 1
    /\ UNCHANGED <<Backoff, constructed, cl, listenerVars>>

\* another writer creates the object
EnvCreate ==
    /\ envWrites < MaxEnvWrites
    /\ ~store.exists
    /\ store' = Written(store, {}, "nil", {})
    /\ envWrites' = envWrites + 1
    /\ UNCHANGED <<Backoff, constructed, cl, listenerVars>>

\* the failures the transport adds to the store's answers in Spec
Injected == {"Other"}

\* one caller, any operation, against a store with other writers and failures
Next ==
    \/ \E c \in Callers : Call(c, Ops)
    \/ \E c \in Callers : Get(c, Injected)
    \/ \E c \in Callers : Create(c, Injected)
    \/ \E c \in Callers : Update(c, Injected)
    \/ \E c \in Callers : MergePatch(c, Injected)
    \/ \E c \in Callers : Patch(c, Injected)
    \/ \E c \in Callers : StatusPatch(c, Injected)
    \/ \E c \in Callers : StatusUpdate(c, Injected)
    \/ \E c \in Callers : Retry(c, {0})
    \/ EnvWrite
    \/ EnvStatus
    \/ EnvDelete
    \/ EnvCreate

Spec == Init /\ [][Next]_vars

\* the operations whose calls race in SpecRace
RaceOps == {"CreateIfNotExist", "GetAndUpdate", "CreateOrUpdate",
            "CreateOrPatchWithJsonMerge"}

\* two callers run concurrently against a store that has no other writer and
\* answers every call as its contract says
NextRace ==
    \/ \E c \in Clients : Call(c, RaceOps)
    \/ \E c \in Clients : Get(c, {})
    \/ \E c \in Clients : Create(c, {})
    \/ \E c \in Clients : Update(c, {})
    \/ \E c \in Clients : MergePatch(c, {})
    \/ \E c \in Clients : Retry(c, {0})

SpecRace == Init /\ [][NextRace]_vars

\* the caller's context is cancelled (or its deadline passes) during a call
Cancel(c) ==
    /\ cl[c].pc \notin {"idle", "done"}
    /\ cl[c].cancelAt = 0
    /\ cl' = [cl EXCEPT ![c].cancelAt = cl[c].attempts,
                        ![c].inflight = cl[c].pc # "Retry"]
    /\ UNCHANGED <<store, Backoff, constructed, envWrites, listenerVars>>

\* the operations whose calls are cancelled in SpecCancel
CancelOps == {"GetAndUpdate", "CreateIfNotExist", "UpdateStatus"}

\* one caller whose context may be cancelled, against a store with another
\* writer
NextCancel ==
    \/ \E c \in Callers : Call(c, CancelOps)
    \/ \E c \in Callers : Get(c, {})
    \/ \E c \in Callers : Create(c, {})
    \/ \E c \in Callers : Update(c, {})
    \/ \E c \in Callers : StatusUpdate(c, {})
    \/ \E c \in Callers : Retry(c, {0})
    \/ \E c \in Callers : Cancel(c)
    \/ EnvWrite

SpecCancel == Init /\ [][NextCancel]_vars

\* richClient.ApplyOptions: an option sets the Backoff of the client in place
ApplyOptions ==
    /\ \E b \in BackoffChoices : b # Backoff /\ Backoff' = b
    /\ UNCHANGED <<store, cl, envWrites, constructed, listenerVars>>

\* the operations called in SpecOptions
OptionOps == {"GetAndUpdate", "UpdateStatus"}

\* one caller, and options applied to the client before and during its call
NextOptions ==
    \/ \E c \in Callers : Call(c, OptionOps)
    \/ \E c \in Callers : Get(c, {})
    \/ \E c \in Callers : Update(c, {})
    \/ \E c \in Callers : StatusUpdate(c, {})
    \/ \E c \in Callers : Retry(c, {0})
    \/ EnvWrite
    \/ ApplyOptions

SpecOptions == Init /\ [][NextOptions]_vars

\* the Backoffs a caller supplies through the options in SpecBackoff
TimedBackoffs ==
    [Steps : 1..MaxTimedSteps, Duration : {DefaultDuration, 2 * Second},
     Factor : {0, 5, Tenths, DefaultFactor, 2 * Tenths},
     Jitter : {0, DefaultJitter, Tenths}]

\* NewClient with one of these Backoffs, the object being in the store
InitBackoff ==
    /\ store \in {s \in InitStores :
                     s.exists /\ s.body = {} /\ s.status = {} /\ s.list = "nil"}
    /\ Backoff \in TimedBackoffs
    /\ cl = [c \in Clients |-> IdleClient]
    /\ envWrites = 0
    /\ constructed = Backoff
    /\ NoListener

\* one caller of UpdateStatus whose writes conflict once another writer has
\* changed the object, the delays between its attempts drawn over the whole
\* jitter range
NextBackoff ==
    \/ \E c \in Callers : Call(c, {"UpdateStatus"})
    \/ \E c \in Callers : StatusUpdate(c, {})
    \/ \E c \in Callers : Retry(c, 0..(JitterGrid - 1))
    \/ EnvWrite

SpecBackoff == InitBackoff /\ [][NextBackoff]_vars

\* main: the listener is built from the -enableGitReview flag, the repository
\* cloned and pulled; the client is constructed and not called
InitListener ==
    /\ lw \in [EnableGitReview : BOOLEAN]
    /\ handle = [q \in Requests |-> IdleHandle]
    /\ repo = ClonedRepo
    /\ store \in {s \in InitStores : ~s.exists}
    /\ Backoff \in {b \in BackoffChoices : b.Steps = DefaultSteps}
    /\ cl = [c \in Clients |-> IdleClient]
    /\ envWrites = 0
    /\ constructed = Backoff

\* the webhook server serves the requests concurrently
NextListener ==
    \/ \E q \in Requests : Admit(q)
    \/ \E q \in Requests : CommitChange(q)
    \/ \E q \in Requests : PushToRemote(q)

SpecListener == InitListener /\ [][NextListener]_vars

\* ------------------------------------------------------------- the claims
\* the attempt of s fetched the object
FetchedOk(s) == Len(s.log) >= 1 /\ s.log[1].call = "Get" /\ s.log[1].resp = "ok"
\* the number of calls of one kind the current attempt of s has issued
Count(s, call) == Cardinality({i \in 1..Len(s.log) : s.log[i].call = call})
\* the number of write calls the current attempt of s has issued
WriteCount(s) == Cardinality({i \in 1..Len(s.log) : s.log[i].call \in Writes})
\* the closure of the current attempt has returned
AttemptOver(s) == s.pc \in {"Retry", "done"}
\* the mutation function returned no error and kept the identity
FnOk(s) == s.applied /\ s.f # "fail" /\ s.after.name = s.orig.name
\* the mutated object is semantically equal to the object the function was given
SameObject(s) == s.after.name = s.orig.name /\ s.after.body = s.orig.body
                 /\ s.after.status = s.orig.status
\* the attempt returned NoChange without error and without a write
NoChangeNoWrite(s) ==
    AttemptOver(s) /\ WriteCount(s) = 0 /\ s.result = None /\ s.err = "nil"

\* C1 as stated: in every mutating operation, a mutation function whose result
\* is semantically equal to the object it was applied to makes the call issue
\* no write and return NoChange without error.
C1_NoChangeNoWrite ==
    \A c \in Clients :
        (cl[c].op \in MutatingOps /\ FnOk(cl[c]) /\ SameObject(cl[c]))
            => NoChangeNoWrite(cl[c])

\* C1 restricted to attempts whose fetch found the object: still not true of
\* GetAndPatch and CreateOrPatch, which compare the unstructured trees.
C1_NoChangeNoWriteExisting ==
    \A c \in Clients :
        (cl[c].op \in MutatingOps /\ FetchedOk(cl[c]) /\ FnOk(cl[c])
         /\ SameObject(cl[c]))
            => NoChangeNoWrite(cl[c])

\* C1 amended: when the fetch found the object and the mutation function
\* returned no error, GetAndUpdate, CreateOrUpdate and
\* CreateOrPatchWithJsonMerge issue no write and return NoChange if the result
\* is semantically equal to the fetched snapshot; GetAndPatch and CreateOrPatch
\* do so if the result is equal to the snapshot field by field, a nil list
\* being different from an empty one.
C1_Amended ==
    \A c \in Clients :
        LET s == cl[c]
        IN (s.op \in MutatingOps /\ FetchedOk(s) /\ FnOk(s) /\ SameObject(s)
            /\ (s.op \in {"GetAndPatch", "CreateOrPatch"} => s.after.list = s.orig.list))
               => NoChangeNoWrite(s)

\* C1 witness: a function that sets a body field the snapshot already has
C1_Witness ==
    \E c \in Clients :
        /\ cl[c].op = "GetAndPatch" /\ cl[c].f = "body" /\ cl[c].pc = "done"
        /\ FetchedOk(cl[c]) /\ FnOk(cl[c]) /\ SameObject(cl[c])
        /\ cl[c].result = None /\ cl[c].ret = "nil"

\* C2: when the mutation function given to GetAndUpdate or GetAndPatch changes
\* the name, the attempt returns the identity-violation error without having
\* issued a write, and the call ends with that error after this one attempt.
C2_IdentityViolation ==
    \A c \in Clients :
        LET s == cl[c]
        IN (s.op \in {"GetAndUpdate", "GetAndPatch"} /\ s.applied /\ s.f = "rename")
               => /\ AttemptOver(s)
                  /\ s.err = "IdentityViolation"
                  /\ WriteCount(s) = 0
                  /\ s.attempts = 1
                  /\ s.pc = "done" => s.ret = "IdentityViolation"

\* C2 witness: a GetAndPatch call whose function renamed the fetched object
\* has returned the identity-violation error
C2_Witness ==
    \E c \in Clients :
        /\ cl[c].op = "GetAndPatch" /\ cl[c].f = "rename" /\ cl[c].pc = "done"
        /\ cl[c].applied /\ cl[c].after.name # cl[c].orig.name
        /\ cl[c].ret = "IdentityViolation"

\* C3: a call never makes more than Steps attempts, and a call whose attempts
\* all failed with Conflict (its last one did) has made exactly Steps attempts
\* and returns that Conflict error.
C3_ConflictExhaustion ==
    \A c \in Clients :
        LET s == cl[c]
        IN /\ s.attempts <= Backoff.Steps
           /\ (s.pc = "done" /\ s.err = "Conflict")
                  => (s.attempts = Backoff.Steps /\ s.ret = "Conflict")

\* C3 witness: the default policy gives up after its fifth conflict
C3_Witness ==
    \E c \in Clients :
        /\ Backoff.Steps = DefaultSteps /\ cl[c].pc = "done"
        /\ cl[c].op = "GetAndUpdate"
        /\ cl[c].attempts = DefaultSteps /\ cl[c].ret = "Conflict"

\* the create-or-* operations
CreateOrOps == {"CreateOrUpdate", "CreateOrPatch", "CreateOrPatchWithJsonMerge"}

\* C4 as stated: a retry follows a Conflict only, and every other error a
\* store call answers inside an attempt is the attempt's last store call, is
\* what the attempt returns and is what the call returns.
C4_ErrorsEndTheCall ==
    \A c \in Clients :
        LET s == cl[c]
        IN /\ s.attempts > 1 => s.lastErr = "Conflict"
           /\ \A i \in 1..Len(s.log) :
                 s.log[i].resp \notin {"ok", "Conflict"}
                     => /\ i = Len(s.log)
                        /\ AttemptOver(s)
                        /\ s.err = s.log[i].resp
                        /\ s.pc = "done" => s.ret = s.log[i].resp

\* the errors an attempt handles itself: NotFound on the fetch of a create-or-*
\* operation, any error on the fetch of CreateIfNotExist and AlreadyExists on
\* its Create
Handled(op, call, resp) ==
    \/ op \in CreateOrOps /\ call = "Get" /\ resp = "NotFound"
    \/ op = "CreateIfNotExist" /\ call = "Get"
    \/ op = "CreateIfNotExist" /\ call = "Create" /\ resp = "AlreadyExists"

\* C4 amended: a new attempt starts only after an attempt that returned
\* Conflict; an attempt that returns any other error ends the call, which
\* returns that error and issues no further store call; and an error answered
\* by a store call ends the attempt and is returned by it, unless it is one of
\* the errors the attempt handles itself.
C4_Amended ==
    [][\A c \in Clients :
          LET s == cl[c]
              t == cl'[c]
          IN /\ (t.attempts > s.attempts /\ s.pc # "idle")
                    => (s.pc = "Retry" /\ s.err = "Conflict")
             /\ (s.pc = "Retry" /\ s.err # "Conflict" /\ t # s)
                    => (t.pc = "done" /\ t.ret = s.err /\ t.log = s.log)
             /\ s.pc = "done" => t = s
             /\ \A i \in 1..Len(t.log) :
                   (t.log[i].resp # "ok" /\ ~Handled(t.op, t.log[i].call, t.log[i].resp))
                       => /\ i = Len(t.log)
                          /\ AttemptOver(t)
                          /\ t.err = t.log[i].resp]_vars

\* C4 witness: a second attempt, made after a Conflict, fails with another
\* error and ends the call although Steps are left
C4_Witness ==
    \E c \in Clients :
        /\ cl[c].pc = "done" /\ cl[c].attempts = 2 /\ cl[c].steps > 1
        /\ cl[c].lastErr = "Conflict" /\ cl[c].ret = "Other"

\* C5 as stated: every attempt after the first starts with a fetch, and no
\* guarded write carries a token that a write of the same call was already
\* refused for.
C5_FreshFetchAfterConflict ==
    \A c \in Clients :
        LET s == cl[c]
        IN /\ (s.attempts > 1 /\ Len(s.log) >= 1) => s.log[1].call = "Get"
           /\ ~s.reused

\* C5 for every operation but UpdateStatus
C5_FreshFetchExceptUpdateStatus ==
    \A c \in Clients :
        LET s == cl[c]
        IN s.op # "UpdateStatus"
               => /\ (s.attempts > 1 /\ Len(s.log) >= 1) => s.log[1].call = "Get"
                  /\ ~s.reused

\* the mutation function changed non-status fields only
BodyOnlyChange(s) ==
    /\ s.after.status = s.orig.status
    /\ s.after.body # s.orig.body \/ s.after.list # s.orig.list
\* the mutation function changed the status subtree only
StatusOnlyChange(s) ==
    /\ s.after.status # s.orig.status
    /\ s.after.body = s.orig.body /\ s.after.list = s.orig.list
\* the answer to the last store call of the current attempt
LastResp(s) == s.log[Len(s.log)].resp

\* C6: a GetAndPatch attempt whose mutation function changed non-status fields
\* only issues one body Patch and no status Patch, and returns Updated when
\* the store accepts the Patch (the store's error and NoChange otherwise).
C6_BodyOnlyPatch ==
    \A c \in Clients :
        LET s == cl[c]
        IN (s.op = "GetAndPatch" /\ FetchedOk(s) /\ FnOk(s) /\ BodyOnlyChange(s))
               => /\ s.pc \in {"Patch", "Retry", "done"}
                  /\ Count(s, "StatusPatch") = 0
                  /\ WriteCount(s) = Count(s, "Patch")
                  /\ Count(s, "Patch") = IF s.pc = "Patch" THEN 0 ELSE 1
                  /\ (AttemptOver(s) /\ LastResp(s) = "ok")
                         => (s.result = Updated /\ s.err = "nil")
                  /\ (AttemptOver(s) /\ LastResp(s) # "ok")
                         => (s.result = None /\ s.err = LastResp(s))

\* C6 witness: a GetAndPatch call that set a body field has returned Updated
\* after its one body Patch
C6_Witness ==
    \E c \in Clients :
        /\ cl[c].op = "GetAndPatch" /\ cl[c].pc = "done" /\ FetchedOk(cl[c])
        /\ FnOk(cl[c]) /\ BodyOnlyChange(cl[c]) /\ cl[c].f = "body"
        /\ Count(cl[c], "Patch") = 1 /\ cl[c].result = Updated /\ cl[c].ret = "nil"

\* C7: a GetAndPatch attempt whose mutation function changed the status
\* subtree only issues no body Patch and one status Patch, and returns
\* UpdatedStatusOnly when the store accepts it (the store's error and NoChange
\* otherwise).
C7_StatusOnlyPatch ==
    \A c \in Clients :
        LET s == cl[c]
        IN (s.op = "GetAndPatch" /\ FetchedOk(s) /\ FnOk(s) /\ StatusOnlyChange(s))
               => /\ s.pc \in {"StatusPatch", "Retry", "done"}
                  /\ Count(s, "Patch") = 0
                  /\ WriteCount(s) = Count(s, "StatusPatch")
                  /\ Count(s, "StatusPatch") = IF s.pc = "StatusPatch" THEN 0 ELSE 1
                  /\ (AttemptOver(s) /\ LastResp(s) = "ok")
                         => (s.result = UpdatedStatusOnly /\ s.err = "nil")
                  /\ (AttemptOver(s) /\ LastResp(s) # "ok")
                         => (s.result = None /\ s.err = LastResp(s))

\* C7 witness: a GetAndPatch call that set a status field has returned
\* UpdatedStatusOnly after its one status Patch
C7_Witness ==
    \E c \in Clients :
        /\ cl[c].op = "GetAndPatch" /\ cl[c].pc = "done" /\ FetchedOk(cl[c])
        /\ FnOk(cl[c]) /\ StatusOnlyChange(cl[c])
        /\ Count(cl[c], "StatusPatch") = 1 /\ Count(cl[c], "Patch") = 0
        /\ cl[c].result = UpdatedStatusOnly /\ cl[c].ret = "nil"

\* C8: a CreateOrUpdate attempt that fetched the object and whose mutation
\* function changed the status subtree only issues one Update and no other
\* write.
C8_StatusOnlyUpdate ==
    \A c \in Clients :
        LET s == cl[c]
        IN (s.op = "CreateOrUpdate" /\ FetchedOk(s) /\ FnOk(s) /\ StatusOnlyChange(s))
               => /\ s.pc \in {"Update", "Retry", "done"}
                  /\ WriteCount(s) = Count(s, "Update")
                  /\ Count(s, "Update") = IF s.pc = "Update" THEN 0 ELSE 1

\* C8 witness: a CreateOrUpdate call that set a status field of an existing
\* object has returned Updated after its one Update
C8_Witness ==
    \E c \in Clients :
        /\ cl[c].op = "CreateOrUpdate" /\ cl[c].pc = "done" /\ FetchedOk(cl[c])
        /\ FnOk(cl[c]) /\ StatusOnlyChange(cl[c])
        /\ Count(cl[c], "Update") = 1 /\ WriteCount(cl[c]) = 1
        /\ cl[c].result = Updated /\ cl[c].ret = "nil"

\* both callers ran CreateIfNotExist, called while the object did not exist,
\* and both calls have returned
BothCreatedIfNotExist ==
    \A c \in Clients :
        cl[c].op = "CreateIfNotExist" /\ cl[c].absent /\ cl[c].pc = "done"
\* the Create calls of the current attempt of s that were answered resp
Creates(s, resp) ==
    {i \in 1..Len(s.log) : s.log[i].call = "Create" /\ s.log[i].resp = resp}

\* C9 as stated: of two concurrent CreateIfNotExist calls on an absent object
\* one performs a successful Create, the Create of the other is answered
\* AlreadyExists, and both return without error.
C9_OneCreatesOtherAlreadyExists ==
    BothCreatedIfNotExist
        => /\ \E c \in Clients :
                 /\ Creates(cl[c], "ok") # {}
                 /\ \A d \in Clients \ {c} : Creates(cl[d], "AlreadyExists") # {}
           /\ \A c \in Clients : cl[c].ret = "nil"

\* C9 amended: exactly one of the two calls performs a successful Create; the
\* other either has its Create answered AlreadyExists or, when its fetch came
\* after that Create, finds the object and issues no Create; both return
\* without error.
C9_Amended ==
    BothCreatedIfNotExist
        => /\ \E c \in Clients :
                 /\ Cardinality(Creates(cl[c], "ok")) = 1
                 /\ \A d \in Clients \ {c} :
                       /\ Creates(cl[d], "ok") = {}
                       /\ \/ Cardinality(Creates(cl[d], "AlreadyExists")) = 1
                          \/ FetchedOk(cl[d]) /\ WriteCount(cl[d]) = 0
           /\ \A c \in Clients : cl[c].ret = "nil" /\ cl[c].attempts = 1

\* C9 witness: the loser of the race had its Create answered AlreadyExists
C9_Witness ==
    /\ BothCreatedIfNotExist
    /\ Creates(cl[1], "ok") # {}
    /\ Creates(cl[2], "AlreadyExists") # {}
    /\ cl[2].ret = "nil"

\* C10 as stated: CreateIfNotExist issues a Create only after a fetch answered
\* NotFound, and a fetch that fails otherwise ends the attempt with its error.
C10_CreateOnlyOnNotFound ==
    \A c \in Clients :
        LET s == cl[c]
        IN (s.op = "CreateIfNotExist" /\ Len(s.log) >= 1 /\ s.log[1].resp # "NotFound")
               => /\ s.pc # "Create"
                  /\ Count(s, "Create") = 0
                  /\ s.log[1].resp # "ok" => (AttemptOver(s) /\ s.err = s.log[1].resp)

\* the mutation function changed non-status fields and the status subtree
BothChange(s) ==
    /\ s.after.status # s.orig.status
    /\ s.after.body # s.orig.body \/ s.after.list # s.orig.list
\* the positions of the calls of one kind in the log of the current attempt
Positions(s, call) == {i \in 1..Len(s.log) : s.log[i].call = call}

\* C11: in a GetAndPatch attempt whose mutation function changed both the
\* non-status fields and the status, the body Patch is the first write and the
\* status Patch is issued only directly after a body Patch the store accepted;
\* a body Patch that failed ends the attempt with no status Patch.
C11_BodyBeforeStatus ==
    \A c \in Clients :
        LET s == cl[c]
        IN (s.op = "GetAndPatch" /\ FetchedOk(s) /\ FnOk(s) /\ BothChange(s))
               => /\ s.pc \in {"Patch", "StatusPatch", "Retry", "done"}
                  /\ s.pc = "Patch" <=> Count(s, "Patch") = 0
                  /\ Count(s, "Patch") <= 1 /\ Count(s, "StatusPatch") <= 1
                  /\ s.pc = "StatusPatch"
                         => (Len(s.log) = 2 /\ s.log[2].call = "Patch"
                             /\ s.log[2].resp = "ok")
                  /\ \A i \in Positions(s, "StatusPatch") :
                         i = 3 /\ s.log[2].call = "Patch" /\ s.log[2].resp = "ok"
                  /\ \A i \in Positions(s, "Patch") :
                         /\ i = 2
                         /\ s.log[i].resp # "ok"
                                => (Len(s.log) = 2 /\ AttemptOver(s)
                                    /\ s.err = s.log[i].resp)

\* C11 witness: a GetAndPatch call that set a body and a status field has
\* returned after its body Patch and then its status Patch were accepted
C11_Witness ==
    \E c \in Clients :
        /\ cl[c].op = "GetAndPatch" /\ cl[c].pc = "done" /\ cl[c].f = "both"
        /\ FetchedOk(cl[c]) /\ BothChange(cl[c])
        /\ Len(cl[c].log) = 3
        /\ cl[c].log[2].call = "Patch" /\ cl[c].log[2].resp = "ok"
        /\ cl[c].log[3].call = "StatusPatch" /\ cl[c].log[3].resp = "ok"
        /\ cl[c].result = UpdatedStatus /\ cl[c].ret = "nil"

\* C12 as stated: when a mutating operation returns, the token in the caller's
\* object is the token the last successful write of the call returned, or the
\* token of the last fetched snapshot when no write of the call succeeded.
C12_TokenOfLastWrite ==
    \A c \in Clients :
        LET s == cl[c]
        IN (s.op \in MutatingOps /\ s.pc = "done")
               => s.obj.rv = IF s.wtok # 0 THEN s.wtok ELSE s.ftok

\* C12 amended: when a mutating operation returns, the token in the caller's
\* object is the token of the last answer of the call that carried the object:
\* the token the last successful write returned, unless a later attempt fetched
\* the object after that write, and then the token of the last fetched
\* snapshot; the caller's own token when the call fetched and wrote nothing.
C12_Amended ==
    \A c \in Clients :
        LET s == cl[c]
        IN (s.op \in MutatingOps /\ s.pc = "done")
               => /\ s.latest = "write" => s.obj.rv = s.wtok
                  /\ s.latest = "fetch" => s.obj.rv = s.ftok
                  /\ s.latest = "none" => s.obj.rv = NewObject.rv
                  /\ s.attempts = 1 => s.obj.rv = IF s.wtok # 0 THEN s.wtok ELSE s.ftok

\* C12 witness: a GetAndPatch call whose body Patch was accepted in an earlier
\* attempt has returned from a later attempt that fetched a newer snapshot and
\* wrote nothing, and holds the token of that snapshot
C12_Witness ==
    \E c \in Clients :
        /\ cl[c].op = "GetAndPatch" /\ cl[c].pc = "done" /\ cl[c].attempts > 1
        /\ cl[c].wtok # 0 /\ cl[c].latest = "fetch" /\ cl[c].ftok > cl[c].wtok
        /\ cl[c].obj.rv = cl[c].ftok

\* C12 witness of the stated case: a call has returned after its last attempt
\* wrote, holding the token that write returned
C12_WitnessWrite ==
    \E c \in Clients :
        /\ cl[c].op \in MutatingOps /\ cl[c].pc = "done" /\ cl[c].latest = "write"
        /\ cl[c].obj.rv = cl[c].wtok /\ cl[c].wtok > cl[c].ftok /\ cl[c].ftok # 0

\* C13 as stated: once the caller's context is cancelled during a call, no
\* further attempt is started, and the call does not return the Conflict of
\* its last attempt.  (The error a store call that was under way reported is
\* allowed here, as is a return without error when that call succeeded.)
C13_CancelStopsRetry ==
    \A c \in Clients :
        LET s == cl[c]
        IN s.cancelAt # 0
               => /\ s.attempts = s.cancelAt
                  /\ s.pc = "done" => s.ret # "Conflict"

\* the second half of C13 alone: a cancelled call does not return Conflict
C13_NeverConflict ==
    \A c \in Clients :
        (cl[c].cancelAt # 0 /\ cl[c].pc = "done") => cl[c].ret # "Conflict"

\* the first half of C13 alone: no attempt starts after the cancellation
C13_NoFurtherAttempt ==
    \A c \in Clients : cl[c].cancelAt # 0 => cl[c].attempts = cl[c].cancelAt

\* what the code does after a cancellation: the retry loop goes on until a
\* store call reports the cancellation or another error, or the steps run out
C13_CancelSeenByStoreCalls ==
    \A c \in Clients :
        LET s == cl[c]
        IN (s.cancelAt # 0 /\ s.attempts > s.cancelAt)
               => (s.log # <<>> => LastResp(s) = "Canceled")

Outcome(w) ==
    IF w = {} THEN None
    ELSE IF w = {"body"} THEN Updated
    ELSE IF w = {"status"} THEN UpdatedStatusOnly
    ELSE UpdatedStatus
\* the sub-documents the Patch calls of the current attempt have written
WroteInAttempt(s) ==
    {d \in {"body", "status"} :
        \E i \in 1..Len(s.log) :
            /\ s.log[i].resp = "ok"
            /\ s.log[i].call = IF d = "body" THEN "Patch" ELSE "StatusPatch"}

\* C15 as stated: a GetAndPatch call that returns without error returns the
\* outcome that names exactly the sub-documents its Patch calls wrote, over all
\* the attempts of the call.
C15_OutcomeNamesWrites ==
    \A c \in Clients :
        LET s == cl[c]
        IN (s.op = "GetAndPatch" /\ s.pc = "done" /\ s.ret = "nil")
               => s.result = Outcome(s.wrote)

\* what the code returns: the outcome of the writes of the last attempt
C15_OutcomeOfLastAttempt ==
    \A c \in Clients :
        LET s == cl[c]
        IN (s.op = "GetAndPatch" /\ s.pc = "done" /\ s.ret = "nil")
               => s.result = Outcome(WroteInAttempt(s))

\* both callers run GetAndUpdate (or have not called yet)
BothGetAndUpdate == \A c \in Clients : cl[c].op \in {"GetAndUpdate", "none"}
\* the stored object holds what the mutation function of caller c sets
Reflects(c) ==
    store.exists /\ ApplyFn(cl[c].f, c, StoreDoc(store)) = StoreDoc(store)

\* C16: when two callers run GetAndUpdate on the same object concurrently,
\* every Update the store accepts carries the token of the snapshot its attempt
\* fetched and that token is the store's current one at the write, and the
\* stored object holds the mutation of every call that has returned Updated
\* (of both when both have).
C16_NoLostUpdate ==
    BothGetAndUpdate
        => \A c \in Clients :
               LET s == cl[c]
               IN /\ \A i \in Positions(s, "Update") :
                         s.log[i].resp = "ok"
                             => (FetchedOk(s) /\ s.log[i].tok = s.log[1].rtok
                                 /\ s.log[i].rtok = s.log[i].tok + 1)
                  /\ (s.pc \in {"Retry", "done"} /\ s.result = Updated /\ s.err = "nil")
                         => (Reflects(c) /\ Count(s, "Update") = 1
                             /\ LastResp(s) = "ok")

\* C16 witness: two GetAndUpdate calls that set different fields have both
\* returned Updated, one of them after a Conflict and a second attempt, and
\* the stored object holds both fields
C16_Witness ==
    /\ \A c \in Clients :
           /\ cl[c].op = "GetAndUpdate" /\ cl[c].pc = "done"
           /\ cl[c].result = Updated /\ cl[c].ret = "nil"
    /\ cl[1].f = "body" /\ cl[2].f = "status"
    /\ cl[1].attempts = 1 /\ cl[2].attempts = 2 /\ cl[2].lastErr = "Conflict"
    /\ store.body = {1} /\ store.status = {2}

\* C17: in a GetAndPatch attempt whose mutation function changed both the
\* non-status fields and the status, an accepted body Patch is always followed
\* by the status Patch (the decision compares the fetched status with the
\* mutated one, whatever status the body Patch returned), the object handed to
\* the status Patch holds the token the body Patch returned and the mutated
\* status, and the attempt returns UpdatedStatus when the store accepts it.
C17_StatusPatchAfterBody ==
    \A c \in Clients :
        LET s == cl[c]
        IN (s.op = "GetAndPatch" /\ FetchedOk(s) /\ FnOk(s) /\ BothChange(s)
            /\ Len(s.log) >= 2 /\ s.log[2].resp = "ok")
               => /\ s.log[2].call = "Patch"
                  /\ Len(s.log) = 2
                         => /\ s.pc = "StatusPatch"
                            /\ s.obj.rv = s.log[2].rtok
                            /\ s.obj.rv # s.orig.rv
                            /\ s.obj.status = s.after.status
                            /\ s.obj.status # s.orig.status
                  /\ Len(s.log) = 3
                         => /\ s.log[3].call = "StatusPatch"
                            /\ s.log[3].tok = s.log[2].rtok
                            /\ AttemptOver(s)
                            /\ s.log[3].resp = "ok"
                                   => (s.result = UpdatedStatus /\ s.err = "nil"
                                       /\ s.obj.rv = s.log[3].rtok)
                            /\ s.log[3].resp # "ok"
                                   => (s.result = Updated /\ s.err = s.log[3].resp)
                  /\ Len(s.log) <= 3

\* C17 witness: a GetAndPatch call that set a body and a status field has had
\* its body Patch accepted with a new token, the stored object the Patch
\* returned already had the mutated status (another writer had set it), and
\* the call is about to issue the status Patch with that token
C17_Witness ==
    \E c \in Clients :
        /\ cl[c].op = "GetAndPatch" /\ cl[c].pc = "StatusPatch" /\ cl[c].f = "both"
        /\ Len(cl[c].log) = 2 /\ cl[c].log[2].call = "Patch"
        /\ cl[c].log[2].resp = "ok"
        /\ cl[c].obj.rv = cl[c].log[2].rtok /\ cl[c].obj.rv > cl[c].orig.rv
        /\ cl[c].obj.status = cl[c].after.status /\ c \in cl[c].obj.status
        /\ c \notin cl[c].orig.status /\ store.status = cl[c].after.status

\* C17 witness of the outcome: such a call has returned UpdatedStatus
C17_WitnessOutcome ==
    \E c \in Clients :
        /\ cl[c].op = "GetAndPatch" /\ cl[c].pc = "done" /\ cl[c].f = "both"
        /\ Len(cl[c].log) = 3 /\ cl[c].log[3].resp = "ok"
        /\ cl[c].log[3].tok = cl[c].log[2].rtok
        /\ cl[c].result = UpdatedStatus /\ c \in store.status /\ c \in store.body

\* the fetch step of the current attempt of s completed: it returned the
\* object, or NotFound in a create-or-* operation
FetchCompleted(s) ==
    /\ Len(s.log) >= 1 /\ s.log[1].call = "Get"
    /\ s.log[1].resp = "ok" \/ (s.op \in CreateOrOps /\ s.log[1].resp = "NotFound")

\* C18: in every attempt of a mutating operation the mutation function is
\* invoked once if the fetch step completed and not at all otherwise; every
\* attempt that ended in a Conflict invoked it, so a call in its (k+1)th attempt
\* has invoked it k times before that attempt and k+1 times once the fetch of
\* that attempt has completed.
C18_MutateOncePerAttempt ==
    \A c \in Clients :
        LET s == cl[c]
        IN (s.op \in MutatingOps /\ s.pc # "idle")
               => /\ s.applied <=> FetchCompleted(s)
                  /\ s.fnCalls = (s.attempts - 1) + (IF FetchCompleted(s) THEN 1 ELSE 0)
                  /\ (s.pc = "Retry" /\ s.err = "Conflict") => s.fnCalls = s.attempts

\* C18 witness: a call that was restarted twice after a Conflict has invoked
\* the mutation function three times
C18_Witness ==
    \E c \in Clients :
        /\ cl[c].op \in MutatingOps /\ cl[c].pc = "done" /\ cl[c].attempts = 3
        /\ cl[c].lastErr = "Conflict" /\ FetchCompleted(cl[c]) /\ cl[c].fnCalls = 3

\* C19: an attempt of CreateOrPatchWithJsonMerge issues at most one write and
\* never both a Create and a Patch.  When the mutation function returns no
\* error: a fetch that reports NotFound is followed by one Create and the
\* outcome Created; a fetched object the function changed by one merge Patch
\* and the outcome Updated; a fetched object it left semantically equal by no
\* write and NoChange.  (The outcome when the store accepts the write; the
\* store's error and NoChange otherwise.)
C19_OneWritePerAttempt ==
    \A c \in Clients :
        LET s == cl[c]
            one(call) ==
                /\ s.pc \in {call, "Retry", "done"}
                /\ Count(s, call) = IF s.pc = call THEN 0 ELSE 1
                /\ WriteCount(s) = Count(s, call)
            outcome(res) ==
                /\ (AttemptOver(s) /\ LastResp(s) = "ok")
                       => (s.result = res /\ s.err = "nil")
                /\ (AttemptOver(s) /\ LastResp(s) # "ok")
                       => (s.result = None /\ s.err = LastResp(s))
        IN (s.op = "CreateOrPatchWithJsonMerge" /\ s.log # <<>>)
               => /\ WriteCount(s) <= 1
                  /\ Count(s, "Create") = 0 \/ Count(s, "MergePatch") = 0
                  /\ Count(s, "Create") = 1 => s.log[1].resp = "NotFound"
                  /\ (s.log[1].resp = "NotFound" /\ FnOk(s))
                         => (one("Create") /\ outcome(Created))
                  /\ (FetchedOk(s) /\ FnOk(s) /\ ~SameObject(s))
                         => (one("MergePatch") /\ outcome(Updated))
                  /\ (FetchedOk(s) /\ FnOk(s) /\ SameObject(s))
                         => NoChangeNoWrite(s)

\* C19 witness: a CreateOrPatchWithJsonMerge call has returned Created after
\* one Create on an absent object
C19_Witness ==
    \E c \in Clients :
        /\ cl[c].op = "CreateOrPatchWithJsonMerge" /\ cl[c].pc = "done"
        /\ cl[c].log[1].resp = "NotFound" /\ Count(cl[c], "Create") = 1
        /\ WriteCount(cl[c]) = 1 /\ cl[c].result = Created /\ cl[c].ret = "nil"

\* C19 witness of the Patch case: a call has returned Updated after one merge
\* Patch of an object its function changed
C19_WitnessPatch ==
    \E c \in Clients :
        /\ cl[c].op = "CreateOrPatchWithJsonMerge" /\ cl[c].pc = "done"
        /\ FetchedOk(cl[c]) /\ ~SameObject(cl[c]) /\ Count(cl[c], "MergePatch") = 1
        /\ WriteCount(cl[c]) = 1 /\ cl[c].result = Updated /\ cl[c].ret = "nil"

\* C19 witness of the unchanged case: a call has returned NoChange without a
\* write for a function that made a nil list empty
C19_WitnessNoChange ==
    \E c \in Clients :
        /\ cl[c].op = "CreateOrPatchWithJsonMerge" /\ cl[c].pc = "done"
        /\ FetchedOk(cl[c]) /\ cl[c].f = "list" /\ cl[c].orig.list = "nil"
        /\ WriteCount(cl[c]) = 0 /\ cl[c].result = None /\ cl[c].ret = "nil"

\* the operations of C20
CreateOrRaceOps == {"CreateOrPatchWithJsonMerge", "CreateOrUpdate"}
\* both callers ran one of them, both fetches reported NotFound, the mutation
\* functions returned no error, and both calls have returned
BothNotFoundReturned ==
    \A c \in Clients :
        /\ cl[c].op \in CreateOrRaceOps /\ cl[c].pc = "done"
        /\ cl[c].log[1].call = "Get" /\ cl[c].log[1].resp = "NotFound"
        /\ FnOk(cl[c])

\* C20: when two create-or-patch (or create-or-update) calls race on an absent
\* object and both fetches report NotFound, one call returns Created and the
\* other, whose Create is answered AlreadyExists, returns that error with
\* NoChange from its first attempt, having written nothing.
C20_OneCreatedOtherAlreadyExists ==
    BothNotFoundReturned
        => \E w \in Clients :
               \A c \in Clients :
                   LET s == cl[c]
                   IN /\ s.attempts = 1 /\ s.fnCalls = 1
                      /\ Len(s.log) = 2 /\ s.log[2].call = "Create"
                      /\ c = w => (s.log[2].resp = "ok" /\ s.result = Created
                                   /\ s.ret = "nil")
                      /\ c # w => (/\ s.log[2].resp = "AlreadyExists"
                                   /\ s.result = None /\ s.ret = "AlreadyExists"
                                   /\ s.lastErr = "nil"
                                   /\ s.wtok = 0 /\ s.latest = "none"
                                   /\ store.rv = cl[w].wtok
                                   /\ StoreDoc(store) = cl[w].obj)

\* C20 witness: two CreateOrPatchWithJsonMerge calls found the object absent;
\* the first has returned Created and the second AlreadyExists
C20_Witness ==
    /\ BothNotFoundReturned
    /\ \A c \in Clients : cl[c].op = "CreateOrPatchWithJsonMerge"
    /\ cl[1].result = Created /\ cl[1].ret = "nil"
    /\ cl[2].result = None /\ cl[2].ret = "AlreadyExists" /\ cl[2].attempts = 1
    /\ cl[2].f = "body" /\ 2 \notin store.body

\* C21: GetAndUpdate and GetAndPatch issue no Create; an attempt whose fetch
\* reports NotFound invokes no mutation function, issues no write and returns
\* NotFound with NoChange, and the call returns that error without another
\* attempt (after its one attempt when the first fetch reports it).
C21_NeverCreate ==
    \A c \in Clients :
        LET s == cl[c]
        IN s.op \in {"GetAndUpdate", "GetAndPatch"}
               => /\ s.pc # "Create" /\ Count(s, "Create") = 0
                  /\ (s.log # <<>> /\ s.log[1].resp = "NotFound")
                         => /\ Len(s.log) = 1 /\ AttemptOver(s)
                            /\ ~s.applied /\ s.fnCalls = s.attempts - 1
                            /\ s.result = None /\ s.err = "NotFound"
                            /\ s.pc = "done" => s.ret = "NotFound"
                            /\ s.attempts = 1 => (s.fnCalls = 0 /\ s.wtok = 0)
                  /\ [cl EXCEPT ![c] = RetryOnConflict(s)][c].pc = "done"
                         \/ s.pc # "Retry" \/ s.err # "NotFound"

\* C21 witness: a GetAndPatch call on an absent object has returned NotFound
\* and NoChange after one attempt, and the object is still absent
C21_Witness ==
    \E c \in Clients :
        /\ cl[c].op = "GetAndPatch" /\ cl[c].pc = "done" /\ cl[c].f = "both"
        /\ cl[c].log[1].resp = "NotFound" /\ cl[c].attempts = 1
        /\ cl[c].fnCalls = 0 /\ cl[c].result = None /\ cl[c].ret = "NotFound"
        /\ ~store.exists /\ Backoff.Steps > 1

\* the body Patch of the current attempt succeeded and its status Patch failed
BodyPatchedThenFailed(s) ==
    /\ Len(s.log) = 3
    /\ s.log[2].call = "Patch" /\ s.log[2].resp = "ok"
    /\ s.log[3].call = "StatusPatch" /\ s.log[3].resp # "ok"

\* C22: when GetAndUpdate, CreateOrPatchWithJsonMerge or GetAndPatch returns
\* an error, the outcome returned with it is NoChange, except that GetAndPatch
\* returns Updated exactly when the body Patch of its last attempt succeeded
\* and the status Patch of that attempt failed.
C22_OutcomeWithError ==
    \A c \in Clients :
        LET s == cl[c]
        IN (s.op \in {"GetAndUpdate", "CreateOrPatchWithJsonMerge", "GetAndPatch"}
            /\ s.pc = "done" /\ s.ret # "nil")
               => /\ s.result \in {None, Updated}
                  /\ s.result = Updated
                         <=> (s.op = "GetAndPatch" /\ BodyPatchedThenFailed(s))
                  /\ s.ret = s.err

\* C22 witness: a GetAndPatch call has returned Updated together with the
\* error of the status Patch that followed its accepted body Patch
C22_Witness ==
    \E c \in Clients :
        /\ cl[c].op = "GetAndPatch" /\ cl[c].pc = "done" /\ cl[c].ret = "Conflict"
        /\ BodyPatchedThenFailed(cl[c]) /\ cl[c].result = Updated
        /\ c \in store.body /\ c \notin store.status

\* C22 witness of the rule: a CreateOrPatchWithJsonMerge call whose Create was
\* refused has returned NoChange with the error
C22_WitnessNoChange ==
    \E c \in Clients :
        /\ cl[c].op = "CreateOrPatchWithJsonMerge" /\ cl[c].pc = "done"
        /\ cl[c].ret # "nil" /\ Count(cl[c], "Create") = 1 /\ cl[c].result = None

\* b to the power e
RECURSIVE Pow(_, _)
Pow(b, e) == IF e = 0 THEN 1 ELSE b * Pow(b, e - 1)

\* the n-th delay of s lies in [d*f^(n-1), d*f^(n-1)*(1+j)] for the Backoff
\* b = (d, f, j); the factors are in tenths, so both sides are scaled
InRange(s, b, n) ==
    /\ b.Duration * Pow(b.Factor, n - 1) <= s.delays[n] * Pow(Tenths, n - 1)
    /\ s.delays[n] * Pow(Tenths, n - 1) * Tenths
           <= b.Duration * Pow(b.Factor, n - 1) * (Tenths + b.Jitter)
\* each delay of s is at least as long as the one before
NonDecreasing(s) ==
    \A n \in 1..(Len(s.delays) - 1) : s.delays[n] <= s.delays[n + 1]

\* C23 as stated: for every Backoff a caller supplies, the n-th delay slept
\* between the attempts of a call lies in [d*f^(n-1), d*f^(n-1)*(1+j)] and
\* each delay is at least as long as the previous one.  (The range is asked
\* for a positive factor only: a factor of 0 leaves the Duration as it is.)
C23_DelaysNonDecreasing ==
    \A c \in Clients :
        /\ Backoff.Factor > 0
               => \A n \in 1..Len(cl[c].delays) : InRange(cl[c], Backoff, n)
        /\ NonDecreasing(cl[c])

\* C23 amended: for a positive factor the n-th delay lies in
\* [d*f^(n-1), d*f^(n-1)*(1+j)]; the delays are non-decreasing when
\* f >= 1 + j, which the default Backoff satisfies.
C23_Amended ==
    \A c \in Clients :
        /\ Backoff.Factor > 0
               => \A n \in 1..Len(cl[c].delays) : InRange(cl[c], Backoff, n)
        /\ Backoff.Factor >= Tenths + Backoff.Jitter => NonDecreasing(cl[c])
        /\ Len(cl[c].delays) = cl[c].attempts - (IF cl[c].pc = "idle" THEN 0 ELSE 1)

\* C23 witness: a call with the default duration, factor and jitter has slept
\* three delays, the first two of them lengthened by the jitter
C23_Witness ==
    \E c \in Clients :
        /\ Backoff.Duration = DefaultDuration /\ Backoff.Factor = DefaultFactor
        /\ Backoff.Jitter = DefaultJitter
        /\ Len(cl[c].delays) = 3 /\ cl[c].attempts = 4
        /\ cl[c].delays[1] > DefaultDuration
        /\ cl[c].delays[2] > cl[c].delays[1] /\ cl[c].delays[3] > cl[c].delays[2]
        /\ cl[c].delays[2] * Tenths > DefaultDuration * DefaultFactor

\* C23 witness of the other configurations: with a factor of 1 and a jitter of
\* 0.5 the second delay of a call is shorter than the first
C23_WitnessDecreasing ==
    \E c \in Clients :
        /\ Backoff.Factor = Tenths /\ Backoff.Jitter = DefaultJitter
        /\ Len(cl[c].delays) >= 2 /\ cl[c].delays[2] < cl[c].delays[1]

\* what holds of one invocation h of Handle in every state: a commit was
\* attempted only with EnableGitReview set and a non-empty diff, a push only
\* after git.CommitChange returned nil, and once syncGit was entered the
\* response Handle returns is Allowed
GitGated(h) ==
    /\ (h.pc \in {"CommitChange", "PushToRemote"} \/ h.commit # "none")
           => (lw.EnableGitReview /\ h.diffs # {})
    /\ (h.pc = "PushToRemote" \/ h.push # "none") => h.commit = "ok"
    /\ (h.pc = "done" /\ h.commit # "none") => h.response = "Allowed"
    /\ h.response \in {"none", "Allowed", "Errored"}
    /\ h.response = "Errored" => (h.commit = "none" /\ h.push = "none")

\* a step in which git.PushToRemote of request q is called
PushStep(q) == handle[q].push = "none" /\ handle'[q].push # "none"
\* a step in which git.CommitChange of request q is called
CommitStep(q) == handle[q].commit = "none" /\ handle'[q].commit # "none"

\* C24: in the admission listener a push to the remote happens only after
\* git.CommitChange of the same request returned nil, a commit is attempted
\* only for a request handled with EnableGitReview set and at least one
\* non-empty spec/status/labels/annotations diff, and whatever the commit and
\* the push return, the response of the request is Allowed.
C24_PushAfterCommit ==
    /\ [](\A q \in Requests : GitGated(handle[q]))
    /\ [][\A q \in Requests :
             /\ PushStep(q) => (handle[q].commit = "ok" /\ q \in repo.local)
             /\ CommitStep(q) => (lw.EnableGitReview /\ handle[q].diffs # {}
                                   /\ handle[q].push = "none")
             /\ (CommitStep(q) \/ PushStep(q))
                    => handle'[q].response \in {"none", "Allowed"}]_vars

\* C24 witness: one request was committed and pushed, another one's commit
\* failed and was not pushed, and both were answered Allowed
C24_Witness ==
    \E q, p \in Requests :
        /\ handle[q].pc = "done" /\ handle[q].commit = "ok"
        /\ handle[q].push = "ok" /\ q \in repo.remote
        /\ handle[q].response = "Allowed"
        /\ handle[p].pc = "done" /\ handle[p].commit = "err"
        /\ handle[p].push = "none" /\ handle[p].response = "Allowed"

\* C24 witness of the failed push: the commit of a request succeeded, its
\* push failed because another request had pushed the commit already, and
\* the request was answered Allowed
C24_WitnessPushFailed ==
    \E q \in Requests :
        /\ handle[q].pc = "done" /\ handle[q].commit = "ok"
        /\ handle[q].push = "err" /\ q \in repo.remote
        /\ handle[q].response = "Allowed"

\* C24 witness of the requests that are not committed: with EnableGitReview
\* set a request without a diff, and with it unset a request with a diff,
\* were answered Allowed and nothing was committed
C24_WitnessNoCommit ==
    \E q \in Requests :
        /\ handle[q].pc = "done" /\ handle[q].response = "Allowed"
        /\ handle[q].commit = "none" /\ repo.local = {}
        /\ (lw.EnableGitReview <=> handle[q].diffs = {})

====
